---- MODULE Spec2Model ----
(***************************************************************************)
(* A model of src/WebScrapper.py: the job scheduler (WebScraperScheduler), *)
(* the retrying runner (BaseScraper.retry_scrape), the periodic loop       *)
(* driven by the `schedule` library, the scrapers' extraction and browsing *)
(* sessions, and the exporters (DataExporter).                             *)
(*                                                                         *)
(* Two threads execute the program: "sched" calls start_scheduler and      *)
(* stays inside its loop; "main" calls add_job, run_job_now and            *)
(* stop_scheduler.  Each thread that is inside _run_job has a frame in     *)
(* `run`.  Time is a coarse clock: Tick advances it by one tick, a minute, *)
(* an hour and a day are 1, 2 and 3 ticks (UnitTicks), and a time.sleep of *)
(* a few seconds may or may not span a tick.                               *)
(*                                                                         *)
(* Spec is the whole scheduler from its construction; RetrySpec is one     *)
(* registered job of any configuration run on demand; LoopSpec is two      *)
(* registered jobs with the loop, under fairness of the loop's thread;     *)
(* SessionSpec is LoopSpec's scheduler with two rendered-mode jobs;        *)
(* ScrapeSpec is the extraction loop of scrape() over a page.              *)
(***************************************************************************)
EXTENDS Integers, Sequences, FiniteSets, TLC

\* ---------------------------------------------------------------- bounds
Names == {"a", "b"}                 \* job names the callers use
Units == {"min", "hour", "day", "sec"}  \* suffixes of schedule_interval
Everys == {1}                       \* numbers a schedule_interval starts with
Errors == {"e1", "e2"}              \* exceptions a scrape attempt can raise
Threads == {"sched", "main"}
MaxRetries == 3                     \* largest max_retries a scraper is given
JobUnits == {"hour", "sec"}         \* suffixes the callers of add_job use
JobRetries == {1, 2}                \* max_retries the callers of add_job use
Types == {"static", "dynamic"}      \* scrape_type
Formats == {"csv", "json", "database", "xml"}  \* output_format ("xml": no exporter)
Urls == {"list", "empty"}           \* url: a page of containers, a page of none
JobTypes == {"static"}              \* scrape_type the callers of add_job use
JobFormats == {"json"}              \* output_format the callers of add_job use
JobUrls == {"list"}                 \* url the callers of add_job use
MaxAdds == Cardinality(Names)       \* add_job calls in one behaviour

\* ------------------------------------------------------------ ScrapeConfig
RetryValues == (-1)..MaxRetries

\* schedule_interval is the string <every><unit>, e.g. "1min"
Intervals == [every : Everys, unit : Units]

ScrapeConfig ==
    [name : Names, url : Urls, scrape_type : Types,
     schedule_interval : Intervals, output_format : Formats,
     max_retries : RetryValues]

\* the configurations handed to add_job
JobConfigs ==
    {c \in ScrapeConfig : /\ c.schedule_interval.unit \in JobUnits
                          /\ c.max_retries \in JobRetries
                          /\ c.url \in JobUrls
                          /\ c.scrape_type \in JobTypes
                          /\ c.output_format \in JobFormats}

NoConfig ==
    [name |-> "none", url |-> "none", scrape_type |-> "none",
     schedule_interval |-> [every |-> 0, unit |-> "none"],
     output_format |-> "none", max_retries |-> 0]

VARIABLES
    jobs,       \* self.jobs: registered name -> ScrapeConfig
    triggers,   \* the schedule library's job list, in creation order
    running,    \* self.running
    pc,         \* where the thread executing start_scheduler is
    due,        \* run_pending: indices of the runnable triggers not yet run
    cur,        \* run_pending: index of the trigger being run, 0 if none
    run,        \* per thread: the frame of _run_job / retry_scrape
    call,       \* the run_job_now call "main" is in or has just returned from
    nAdds,      \* add_job calls made so far
    sinceFire,  \* per name: ticks since the loop last fired it (or since
                \* it was first registered), capped
    stopSeen,   \* stop_scheduler was called while the loop was running
    stopEarly,  \* stop_scheduler was called after start_scheduler was and
                \* before its self.running = True, which is still to come
    scrape      \* the call of scrape() whose extraction is followed record by
                \* record: its scraper's type, its page and its `data` list

vars == <<jobs, triggers, running, pc, due, cur, run, call, nAdds, sinceFire,
          stopSeen, stopEarly, scrape>>

\* no extraction is followed
NoScrape == [type |-> "none", page |-> <<>>, data |-> <<>>, returned |-> FALSE]

\* ------------------------------------------------------------------ time
\* Clock ticks in one unit of a schedule (scaled: a minute is one tick).
UnitTicks(unit) ==
    CASE unit = "min" -> 1
      [] unit = "hour" -> 2
      [] unit = "day" -> 3
      [] OTHER -> 0

\* str.endswith('min') / ('hour') / ('day') on schedule_interval
Recognized(interval) == interval.unit \in {"min", "hour", "day"}

\* schedule.every(n).<unit>: the trigger's period in ticks
Period(interval) == interval.every * UnitTicks(interval.unit)

MaxOf(S) == CHOOSE x \in S : \A y \in S : y <= x

\* the longest period of a job: the elapsed times kept are capped at it
MaxPeriod == MaxOf({Period(c.schedule_interval) : c \in JobConfigs})

\* Job.should_run: datetime.now() >= self.next_run
should_run(trig) == trig.untilDue <= 0

\* ----------------------------------------------------------- retry_scrape
\* for attempt in range(self.config.max_retries)
MoreAttempts(attempt, max_retries) == attempt < max_retries

\* a handler that sleeps after every failed attempt
WillRetry_Always(attempt, max_retries) == TRUE

\* a handler that compares with max_retries instead of max_retries - 1
WillRetry_OffByOne(attempt, max_retries) == attempt < max_retries

\* if attempt < self.config.max_retries - 1
WillRetry(attempt, max_retries) == attempt < max_retries - 1

\* a backoff that starts at 2 instead of 1
BackoffDelay_FromTwo(attempt) == 2 ^ (attempt + 1)

\* time.sleep(2 ** attempt)
BackoffDelay(attempt) == 2 ^ attempt

\* a handler that keeps the first attempt's exception and raises that one
Reraised_First(errs) == errs[1]

\* the bare `raise` in the handler re-raises the exception being handled,
\* which is the one of the attempt that has just failed
Reraised(errs) == errs[Len(errs)]

\* a handler that takes the exporters' errors only
Caught_ExportOnly(exc) == exc = "ExportError"

\* except Exception as e (in _run_job): which exceptions the handler takes
Caught(exc) == TRUE

\* a handler that logs the completion whatever has happened
Outcome_Always(exc) == "completed"

\* what _run_job logs: "completed successfully" at the end of the try block,
\* "failed" in its handler when an exception exc reached it
Outcome(exc) == IF exc = "none" THEN "completed" ELSE "failed"

\* The frame of a thread inside _run_job:
\*   phase    "attempt" (at the head of retry_scrape's for loop), "browsing"
\*            (inside DynamicScraper.scrape, the browsing session opened),
\*            "backoff" (inside time.sleep), "export" (retry_scrape has
\*            returned), "done" (_run_job has logged its outcome), "escaped"
\*            (an exception is leaving _run_job); "none" outside _run_job
\*   name     job_name;  cfg  the ScrapeConfig the scraper was built with
\*   attempt  the loop variable of retry_scrape
\*   calls    calls of self.scrape() that ended;  errs  the exceptions they
\*            raised
\*   slept    the arguments of the time.sleep calls made
\*   retry    how retry_scrape ended: "returned" or "raised"
\*   data     what retry_scrape returned: "records" (a list) or "None"
\*   found    len(data) of a returned list
\*   driver   self.driver of a DynamicScraper: "None", "live" (a session that
\*            is open) or "dead" (a session that was quit)
\*   open     browsing sessions this run opened and has not quit
\*   exported the exporters _run_job invoked;  wrote  the sinks they wrote
\*   exc      the exception that reached _run_job's handler
\*   outcome  what _run_job logged: "completed" or "failed"
NoRun ==
    [phase |-> "none", name |-> "none", cfg |-> NoConfig, attempt |-> 0,
     calls |-> 0, errs |-> <<>>, slept |-> <<>>, retry |-> "none",
     data |-> "none", found |-> 0, driver |-> "None", open |-> 0,
     exported |-> <<>>, wrote |-> {}, exc |-> "none", outcome |-> "none"]

NoCall == [op |-> "none", name |-> "none", state |-> "none", raised |-> "none"]

\* _run_job up to the call of retry_scrape: config = self.jobs[job_name],
\* the scraper is constructed with it
EnterRun(name) ==
    [NoRun EXCEPT !.phase = "attempt", !.name = name, !.cfg = jobs[name]]

\* the containers that the container selector matches on the page at url
Containers(url) == CASE url = "list" -> 2 [] OTHER -> 0

\* return self.scrape(): the attempt returned a list of k records
Returned(f, k) ==
    [f EXCEPT !.calls = @ + 1, !.data = "records", !.found = k,
              !.retry = "returned", !.phase = "export"]

\* the handler of retry_scrape when the attempt raised o: the backoff and the
\* next attempt, or the bare raise, which _run_job's handler takes
Failed(f, o) ==
    LET g == [f EXCEPT !.calls = @ + 1, !.errs = Append(@, o)]
    IN IF WillRetry(f.attempt, f.cfg.max_retries)
       THEN [g EXCEPT !.phase = "backoff",
                      !.slept = Append(@, BackoffDelay(f.attempt))]
       ELSE LET e == Reraised(g.errs)
            IN IF Caught(e)
               THEN [g EXCEPT !.phase = "done", !.exc = e, !.retry = "raised",
                              !.outcome = Outcome(e)]
               ELSE [g EXCEPT !.phase = "escaped", !.exc = e,
                              !.retry = "raised", !.outcome = "raised"]

\* a scrape that quits its driver at the end of the try block only
Teardown_OnReturn(f, exc) ==
    IF exc = "none" /\ f.driver = "live"
    THEN [f EXCEPT !.driver = "dead", !.open = @ - 1]
    ELSE f

\* finally: if self.driver: self.driver.quit(), whether the scrape returns
\* (exc = "none") or raises exc; quitting a session that was quit already
\* closes nothing
Teardown(f, exc) ==
    CASE f.driver = "None" -> f
      [] f.driver = "live" -> [f EXCEPT !.driver = "dead", !.open = @ - 1]
      [] OTHER -> f

\* One turn of the for loop of retry_scrape in thread t: the range test and
\* the call of self.scrape().  StaticScraper.scrape returns its records or
\* raises, and the handler runs; DynamicScraper.scrape sets its driver up:
\* webdriver.Chrome either raises, and the finally clause and the handler
\* run, or opens a browsing session.
RetryStep(t) ==
    /\ run[t].phase = "attempt"
    /\ LET f == run[t]
           n == f.cfg.max_retries
       IN IF ~MoreAttempts(f.attempt, n)
          THEN \* the loop ends without a return: retry_scrape returns None
               run' = [run EXCEPT ![t] = [f EXCEPT !.phase = "export",
                                                   !.retry = "returned",
                                                   !.data = "None"]]
          ELSE IF f.cfg.scrape_type = "static"
               THEN \/ run' = [run EXCEPT ![t] =
                                   Returned(f, Containers(f.cfg.url))]
                    \/ \E o \in Errors :
                          run' = [run EXCEPT ![t] = Failed(f, o)]
               ELSE \E o \in {"session"} \cup Errors :
                        run' = [run EXCEPT ![t] =
                                 IF o = "session"
                                 THEN [f EXCEPT !.phase = "browsing",
                                                !.driver = "live",
                                                !.open = @ + 1]
                                 ELSE Failed(Teardown(f, o), o)]
    /\ UNCHANGED <<jobs, triggers, running, pc, due, cur, call, nAdds,
                   sinceFire, stopSeen, scrape, stopEarly>>

\* DynamicScraper.scrape with its session open, to its end: driver.get, the
\* wait for wait_for_element, the enumeration of the containers and the
\* extraction return the records or raise (a timeout of the wait, a failure
\* of find_elements, any other fault); the finally clause runs either way
Browse(t) ==
    /\ run[t].phase = "browsing"
    /\ LET f == run[t]
       IN \/ run' = [run EXCEPT ![t] =
                        Returned(Teardown(f, "none"), Containers(f.cfg.url))]
          \/ \E o \in Errors :
               run' = [run EXCEPT ![t] = Failed(Teardown(f, o), o)]
    /\ UNCHANGED <<jobs, triggers, running, pc, due, cur, call, nAdds,
                   sinceFire, stopSeen, scrape, stopEarly>>

\* time.sleep(2 ** attempt) returns and the for loop takes the next attempt
BackoffWake(t) ==
    /\ run[t].phase = "backoff"
    /\ run' = [run EXCEPT ![t] = [@ EXCEPT !.phase = "attempt",
                                           !.attempt = @ + 1]]
    /\ UNCHANGED <<jobs, triggers, running, pc, due, cur, call, nAdds,
                   sinceFire, stopSeen, scrape, stopEarly>>

\* ------------------------------------------------------------ DataExporter
\* if config.output_format == 'csv' / 'json' / 'database': the exporter
\* _run_job calls, "none" for any other format
Exporter(output_format) ==
    CASE output_format = "csv" -> "to_csv"
      [] output_format = "json" -> "to_json"
      [] output_format = "database" -> "to_database"
      [] OTHER -> "none"

\* `not data` is false: data is a list that holds a record
Truthy(f) == f.data = "records" /\ f.found > 0

\* whether the exporter writes its sink for the data of frame f: to_csv and
\* to_database return at once `if not data`, to_json opens and writes its
\* file whatever data is
WritesSink(exporter, f) ==
    CASE exporter = "to_csv" -> Truthy(f)
      [] exporter = "to_json" -> TRUE
      [] exporter = "to_database" -> Truthy(f)
      [] OTHER -> FALSE

\* _run_job after retry_scrape returned: the call of the exporter of the
\* job's output_format and the success log, or the handler when the
\* exporter's write raises
Export(t) ==
    /\ run[t].phase = "export"
    /\ LET f == run[t]
           e == Exporter(f.cfg.output_format)
           g == [f EXCEPT !.exported = IF e = "none" THEN @ ELSE Append(@, e)]
       IN \E ok \in BOOLEAN :
            IF ok \/ ~WritesSink(e, f)
            THEN run' = [run EXCEPT ![t] =
                     [g EXCEPT !.phase = "done",
                               !.wrote = IF WritesSink(e, f) THEN {e} ELSE {},
                               !.outcome = Outcome("none")]]
            ELSE IF Caught("ExportError")
                 THEN run' = [run EXCEPT ![t] =
                          [g EXCEPT !.phase = "done", !.exc = "ExportError",
                                    !.outcome = Outcome("ExportError")]]
                 ELSE run' = [run EXCEPT ![t] =
                          [g EXCEPT !.phase = "escaped", !.exc = "ExportError",
                                    !.outcome = "raised"]]
    /\ UNCHANGED <<jobs, triggers, running, pc, due, cur, call, nAdds,
                   sinceFire, stopSeen, scrape, stopEarly>>

\* -------------------------------------------------------- WebScraperScheduler
\* __init__: no jobs, not running; the schedule library holds no trigger
Init ==
    /\ jobs = <<>>
    /\ triggers = <<>>
    /\ running = FALSE
    /\ pc = "idle"
    /\ due = {}
    /\ cur = 0
    /\ run = [t \in Threads |-> NoRun]
    /\ call = NoCall
    /\ nAdds = 0
    /\ sinceFire = [n \in Names |-> 0]
    /\ stopSeen = FALSE
    /\ stopEarly = FALSE
    /\ scrape = NoScrape

\* self.jobs[config.name] = config
Store(config) == (config.name :> config) @@ jobs

\* schedule.every(n).<unit>.do(self._run_job, config.name): a new trigger,
\* first due one period from now
NewTrigger(config) ==
    [name |-> config.name, period |-> Period(config.schedule_interval),
     untilDue |-> Period(config.schedule_interval)]

\* add_job(config), called by "main"
add_job(config) ==
    /\ call = NoCall
    /\ nAdds < MaxAdds
    /\ nAdds' = nAdds + 1
    /\ jobs' = Store(config)
    /\ triggers' = IF Recognized(config.schedule_interval)
                   THEN Append(triggers, NewTrigger(config))
                   ELSE triggers    \* logger.error("Invalid schedule interval")
    /\ sinceFire' = IF config.name \in DOMAIN jobs
                    THEN sinceFire
                    ELSE [sinceFire EXCEPT ![config.name] = 0]
    /\ UNCHANGED <<running, pc, due, cur, run, call, stopSeen, scrape,
                   stopEarly>>

\* a run_job_now without the membership test
Registered_Unchecked(name) == TRUE

\* if job_name in self.jobs
Registered(name) == name \in DOMAIN jobs

\* run_job_now(job_name), called by "main": the call, up to the entry of
\* _run_job or to the error log
run_job_now(name) ==
    /\ call = NoCall
    /\ IF Registered(name)
       THEN IF name \in DOMAIN jobs
            THEN /\ run' = [run EXCEPT !["main"] = EnterRun(name)]
                 /\ call' = [op |-> "run_job_now", name |-> name,
                             state |-> "running", raised |-> "none"]
            ELSE \* self.jobs[job_name] raises KeyError outside the try
                 /\ run' = run
                 /\ call' = [op |-> "run_job_now", name |-> name,
                             state |-> "returned", raised |-> "KeyError"]
       ELSE \* logger.error("Job not found"), and the call returns
            /\ run' = run
            /\ call' = [op |-> "run_job_now", name |-> name,
                        state |-> "returned", raised |-> "none"]
    /\ UNCHANGED <<jobs, triggers, running, pc, due, cur, nAdds, sinceFire,
                   stopSeen, scrape, stopEarly>>

\* _run_job returns to run_job_now, which returns to "main"
ReturnToCaller ==
    /\ run["main"].phase \in {"done", "escaped"}
    /\ call' = [call EXCEPT !.state = "returned",
                            !.raised = IF run["main"].phase = "escaped"
                                       THEN run["main"].exc ELSE "none"]
    /\ run' = [run EXCEPT !["main"] = NoRun]
    /\ UNCHANGED <<jobs, triggers, running, pc, due, cur, nAdds, sinceFire,
                   stopSeen, scrape, stopEarly>>

\* "main" goes on after a call returned
Resume ==
    /\ call.state = "returned"
    /\ call' = NoCall
    /\ UNCHANGED <<jobs, triggers, running, pc, due, cur, run, nAdds,
                   sinceFire, stopSeen, scrape, stopEarly>>

LoopActive == pc \in {"check", "run_pending", "pending", "sleep"}

\* a stop that assigns another attribute than the one the loop reads
stop_scheduler_OtherFlag ==
    /\ call = NoCall
    /\ stopSeen' = (stopSeen \/ LoopActive)
    /\ stopEarly' = (pc = "starting")
    /\ UNCHANGED <<jobs, triggers, running, pc, due, cur, run, call, nAdds,
                   sinceFire, scrape>>

\* a stop that also empties the job table
stop_scheduler_Clearing ==
    /\ call = NoCall
    /\ running' = FALSE
    /\ jobs' = <<>>
    /\ stopSeen' = (stopSeen \/ LoopActive)
    /\ stopEarly' = (pc = "starting")
    /\ UNCHANGED <<triggers, pc, due, cur, run, call, nAdds, sinceFire,
                   scrape>>

\* stop_scheduler(), called by "main"
stop_scheduler ==
    /\ call = NoCall
    /\ running' = FALSE
    /\ stopSeen' = (stopSeen \/ LoopActive)
    /\ stopEarly' = (pc = "starting")
    /\ UNCHANGED <<jobs, triggers, pc, due, cur, run, call, nAdds, sinceFire,
                   scrape>>

\* what list_jobs() prints: one summary per registered job
JobSummaries ==
    {[name |-> jobs[n].name, url |-> jobs[n].url, type |-> jobs[n].scrape_type,
      schedule |-> jobs[n].schedule_interval,
      output_format |-> jobs[n].output_format] : n \in DOMAIN jobs}

\* list_jobs(), called by "main": it reads self.jobs, prints JobSummaries
\* and assigns nothing
list_jobs ==
    /\ call = NoCall
    /\ UNCHANGED vars

\* "sched" calls start_scheduler()
start_scheduler ==
    /\ pc = "idle"
    /\ pc' = "starting"
    /\ UNCHANGED <<jobs, triggers, running, due, cur, run, call, nAdds,
                   sinceFire, stopSeen, scrape, stopEarly>>

\* self.running = True
SetRunning ==
    /\ pc = "starting"
    /\ running' = TRUE
    /\ stopEarly' = FALSE
    /\ pc' = "check"
    /\ UNCHANGED <<jobs, triggers, due, cur, run, call, nAdds, sinceFire,
                   stopSeen, scrape>>

\* a loop that never reads the flag
LoopContinues_Always == TRUE

\* while self.running
LoopContinues == running

\* while self.running: the test that enters the body or leaves the loop
LoopTest ==
    /\ pc = "check"
    /\ pc' = IF LoopContinues THEN "run_pending" ELSE "exited"
    /\ UNCHANGED <<jobs, triggers, running, due, cur, run, call, nAdds,
                   sinceFire, stopSeen, scrape, stopEarly>>

\* schedule.run_pending(): the runnable triggers are collected
run_pending ==
    /\ pc = "run_pending"
    /\ due' = {i \in 1..Len(triggers) : should_run(triggers[i])}
    /\ pc' = "pending"
    /\ UNCHANGED <<jobs, triggers, running, cur, run, call, nAdds, sinceFire,
                   stopSeen, scrape, stopEarly>>

\* run_pending runs one of the collected triggers: Job.run() calls
\* self._run_job(name).  Triggers that are due together are taken in any
\* order (the library sorts by next_run, which the coarse clock does not keep).
RunDue ==
    /\ pc = "pending"
    /\ cur = 0
    /\ \E i \in due :
         /\ cur' = i
         /\ due' = due \ {i}
         /\ run' = [run EXCEPT !["sched"] = EnterRun(triggers[i].name)]
         /\ sinceFire' = [sinceFire EXCEPT ![triggers[i].name] = 0]
    /\ UNCHANGED <<jobs, triggers, running, pc, call, nAdds, stopSeen, scrape,
                   stopEarly>>

\* _run_job returns to Job.run, which sets last_run and schedules the next
\* run one period from now; an exception leaving _run_job leaves run_pending
\* and start_scheduler too
ReturnToLoop ==
    /\ run["sched"].phase \in {"done", "escaped"}
    /\ IF run["sched"].phase = "done"
       THEN /\ triggers' = [triggers EXCEPT ![cur].untilDue = triggers[cur].period]
            /\ UNCHANGED <<pc, due>>
       ELSE /\ pc' = "crashed"
            /\ due' = {}
            /\ UNCHANGED triggers
    /\ cur' = 0
    /\ run' = [run EXCEPT !["sched"] = NoRun]
    /\ UNCHANGED <<jobs, running, call, nAdds, sinceFire, stopSeen, scrape,
                   stopEarly>>

\* run_pending returns and the loop calls time.sleep(1)
PendingDone ==
    /\ pc = "pending"
    /\ cur = 0
    /\ due = {}
    /\ pc' = "sleep"
    /\ UNCHANGED <<jobs, triggers, running, due, cur, run, call, nAdds,
                   sinceFire, stopSeen, scrape, stopEarly>>

\* time.sleep(1) returns
LoopSleep ==
    /\ pc = "sleep"
    /\ pc' = "check"
    /\ UNCHANGED <<jobs, triggers, running, due, cur, run, call, nAdds,
                   sinceFire, stopSeen, scrape, stopEarly>>

Min(a, b) == IF a < b THEN a ELSE b

\* The clock advances by one tick.
Tick ==
    /\ triggers' = [i \in 1..Len(triggers) |->
                      [triggers[i] EXCEPT !.untilDue = IF @ > 0 THEN @ - 1 ELSE 0]]
    /\ sinceFire' = [n \in Names |->
                      IF n \in DOMAIN jobs THEN Min(sinceFire[n] + 1, MaxPeriod)
                      ELSE sinceFire[n]]
    /\ UNCHANGED <<jobs, running, pc, due, cur, run, call, nAdds, stopSeen,
                   scrape, stopEarly>>

Next ==
    \/ \E config \in JobConfigs : add_job(config)
    \/ \E name \in Names : run_job_now(name)
    \/ ReturnToCaller
    \/ Resume
    \/ list_jobs
    \/ stop_scheduler
    \/ start_scheduler
    \/ SetRunning
    \/ LoopTest
    \/ run_pending
    \/ RunDue
    \/ ReturnToLoop
    \/ PendingDone
    \/ LoopSleep
    \/ \E t \in Threads : RetryStep(t)
    \/ \E t \in Threads : BackoffWake(t)
    \/ \E t \in Threads : Export(t)
    \/ Tick

Spec == Init /\ [][Next]_vars

\* ------------------------------------------------------------- retry runs
\* One registered job, of any configuration, run on demand by "main": the
\* state after WebScraperScheduler() and add_job(config).
InitRetry ==
    \E config \in ScrapeConfig :
        /\ config.name = "a"
        /\ jobs = (config.name :> config)
        /\ triggers = IF Recognized(config.schedule_interval)
                      THEN <<NewTrigger(config)>>
                      ELSE <<>>
        /\ running = FALSE
        /\ pc = "idle"
        /\ due = {}
        /\ cur = 0
        /\ run = [t \in Threads |-> NoRun]
        /\ call = NoCall
        /\ nAdds = 1
        /\ sinceFire = [n \in Names |-> 0]
        /\ stopSeen = FALSE
        /\ stopEarly = FALSE
        /\ scrape = NoScrape

NextRetry ==
    \/ \E name \in Names : run_job_now(name)
    \/ RetryStep("main")
    \/ Browse("main")
    \/ BackoffWake("main")
    \/ Export("main")
    \/ ReturnToCaller
    \/ Resume

RetrySpec == InitRetry /\ [][NextRetry]_vars

\* the frames of the runs in progress
Frames == {run[t] : t \in Threads}

Failures(f) == Len(f.errs)

\* C1: with max_retries = n >= 1, retry_scrape never makes more than n
\* attempts; it ends in failure exactly when all n attempts failed, having
\* made n attempts; and when attempt j+1 succeeds after j < n failures it
\* has made exactly j+1 attempts and ends in success.
C1_AttemptCount ==
    \A f \in Frames :
        LET n == f.cfg.max_retries
        IN n >= 1 =>
            /\ f.calls <= n
            /\ (f.retry = "raised" <=> Failures(f) = n)
            /\ (f.retry = "raised" => f.calls = n)
            /\ (f.retry = "returned" <=> f.calls = Failures(f) + 1)
            /\ (f.retry = "returned" => Failures(f) < n /\ f.data = "records")
            /\ (f.retry = "none" => f.calls = Failures(f))

\* a job with max_retries = 3 whose extractor failed twice and then
\* succeeded: three attempts, success
C1_Witness ==
    \E f \in Frames :
        /\ f.cfg.max_retries = 3
        /\ Failures(f) = 2
        /\ f.calls = 3
        /\ f.retry = "returned"

\* C2 (state part): an attempt that completed without raising ends
\* retry_scrape at once with its records; a failure is reported only when
\* max_retries attempts have all failed, and the error surfaced is the one
\* of the last attempt.
C2_Outcome ==
    \A f \in Frames :
        /\ (f.calls > Failures(f) => f.retry = "returned" /\ f.data = "records")
        /\ (f.retry = "raised" =>
              /\ f.calls = f.cfg.max_retries
              /\ Failures(f) = f.cfg.max_retries
              /\ f.exc = f.errs[Len(f.errs)])

\* C2 (step part): once retry_scrape has returned or raised, the run makes
\* no further attempt.
C2_NoAttemptAfter ==
    \A t \in Threads :
        (run[t].retry # "none" /\ run'[t].phase # "none" /\ run'[t].name = run[t].name)
            => /\ run'[t].calls = run[t].calls
               /\ run'[t].errs = run[t].errs \/ run'[t].calls = 0

\* C2: retry_scrape returns success at the first attempt that does not
\* raise and makes no attempt after it; it fails only after all
\* max_retries attempts failed, surfacing the last attempt's error.
C2_FirstSuccessLastError == [] C2_Outcome /\ [][C2_NoAttemptAfter]_vars

\* all three attempts failed, the first with another error than the last,
\* and the last one's error is the one surfaced
C2_Witness ==
    \E f \in Frames :
        /\ f.retry = "raised"
        /\ Len(f.errs) = 3
        /\ f.errs[1] # f.errs[3]
        /\ f.exc = f.errs[3]

\* C3 as claimed: in a run whose first two attempts fail and whose third is
\* made, the delay before attempt 2 is at least 2 and the delay before
\* attempt 3 is at least 4.
C3_Original ==
    \A f \in Frames :
        (f.calls >= 3 /\ Failures(f) >= 2) =>
            /\ Len(f.slept) >= 2
            /\ f.slept[1] >= 2
            /\ f.slept[2] >= 4

\* C3 as amended: the delay before retry k (k >= 1) is 2^(k-1): in a run
\* whose first two attempts fail and whose third is made, the delay before
\* attempt 2 is 1 and the delay before attempt 3 is 2.
C3_Backoff ==
    \A f \in Frames :
        /\ \A k \in 1..Len(f.slept) : f.slept[k] = 2 ^ (k - 1)
        /\ (f.calls >= 3 /\ Failures(f) >= 2) =>
              /\ Len(f.slept) >= 2
              /\ f.slept[1] >= 1
              /\ f.slept[2] >= 2

\* a third attempt was made after two failures
C3_Witness ==
    \E f \in Frames : f.calls >= 3 /\ Failures(f) >= 2 /\ Len(f.slept) = 2

\* -------------------------------------------------- two jobs and the loop
\* Two registered jobs, the periodic loop and the calls of "main" other than
\* add_job: the state after WebScraperScheduler(), add_job(ca) and
\* add_job(cb).
InitLoop ==
    \E ca, cb \in JobConfigs :
        /\ ca.name = "a"
        /\ cb.name = "b"
        /\ jobs = (ca.name :> ca) @@ (cb.name :> cb)
        /\ triggers =
              (IF Recognized(ca.schedule_interval) THEN <<NewTrigger(ca)>> ELSE <<>>)
              \o (IF Recognized(cb.schedule_interval) THEN <<NewTrigger(cb)>> ELSE <<>>)
        /\ running = FALSE
        /\ pc = "idle"
        /\ due = {}
        /\ cur = 0
        /\ run = [t \in Threads |-> NoRun]
        /\ call = NoCall
        /\ nAdds = 2
        /\ sinceFire = [n \in Names |-> 0]
        /\ stopSeen = FALSE
        /\ stopEarly = FALSE
        /\ scrape = NoScrape

NextLoop ==
    \/ stop_scheduler
    \/ start_scheduler
    \/ SetRunning
    \/ LoopTest
    \/ run_pending
    \/ RunDue
    \/ ReturnToLoop
    \/ PendingDone
    \/ LoopSleep
    \/ \E name \in Names : run_job_now(name)
    \/ ReturnToCaller
    \/ Resume
    \/ \E t \in Threads : RetryStep(t)
    \/ \E t \in Threads : BackoffWake(t)
    \/ \E t \in Threads : Export(t)
    \/ Tick

\* The thread inside start_scheduler keeps executing: every statement of the
\* loop, every scrape attempt and every sleep ends.
LoopFairness ==
    /\ WF_vars(SetRunning)
    /\ WF_vars(LoopTest)
    /\ WF_vars(run_pending)
    /\ WF_vars(RunDue)
    /\ WF_vars(ReturnToLoop)
    /\ WF_vars(PendingDone)
    /\ WF_vars(LoopSleep)
    /\ WF_vars(RetryStep("sched"))
    /\ WF_vars(BackoffWake("sched"))
    /\ WF_vars(Export("sched"))

LoopSpec == InitLoop /\ [][NextLoop]_vars /\ LoopFairness

\* the scheduler's state: idle, running or stopped
SchedulerState ==
    CASE pc = "idle" -> "idle"
      [] pc = "exited" -> "stopped"
      [] pc = "crashed" -> "crashed"
      [] OTHER -> "running"

\* a run is executing: between the entry of _run_job and its last statement
Executing(f) == f.phase \in {"attempt", "browsing", "backoff", "export"}

\* -------------------------------------------------------- scheduler properties
\* C4 (state part): no exception leaves _run_job, neither into the loop nor
\* into the caller of run_job_now.
C4_NothingEscapes ==
    /\ \A f \in Frames : f.phase # "escaped"
    /\ pc # "crashed"
    /\ call.raised = "none"

\* C4 (step part): when a run of the loop has failed after all its retries
\* and returns, the loop is still inside run_pending with every other due
\* trigger still to run, and it leaves run_pending only when none is left.
C4_LoopGoesOn ==
    /\ (run["sched"].outcome = "failed" /\ run'["sched"].phase = "none")
          => (pc' = "pending" /\ due' = due)
    /\ (pc = "pending" /\ pc' # "pending") => (due = {} /\ pc' = "sleep")
    /\ (run["main"].outcome = "failed" /\ run'["main"].phase = "none")
          => (pc' = pc /\ due' = due /\ run'["sched"] = run["sched"])

\* C4 (progress part): every trigger that is due when a run of the loop has
\* failed is run afterwards.
C4_OthersStillRun ==
    \A i \in 1..MaxAdds :
        (run["sched"].outcome = "failed" /\ i \in due) ~> (cur = i)

\* C4: a run that fails after all its retries is caught in _run_job: no
\* exception escapes, the loop keeps running and the other due jobs are
\* still run.
C4_FailureAbsorbed ==
    /\ [] C4_NothingEscapes
    /\ [][C4_LoopGoesOn]_vars
    /\ C4_OthersStillRun

\* a run of the loop failed after its retries while another trigger is due
C4_Witness ==
    /\ run["sched"].phase = "done"
    /\ run["sched"].retry = "raised"
    /\ Len(run["sched"].errs) = 2
    /\ due # {}

\* C5 as claimed: an add_job of a name that is already registered leaves the
\* stored spec and the triggers as they were.
C5_DuplicateRejected ==
    [][(nAdds' = nAdds + 1 /\ DOMAIN jobs' = DOMAIN jobs)
          => (jobs' = jobs /\ triggers' = triggers)]_vars

\* C6 as claimed: every job in the registry has a recognized interval and
\* an installed periodic trigger.
C6_RegistryValid ==
    \A n \in DOMAIN jobs :
        /\ Recognized(jobs[n].schedule_interval)
        /\ \E i \in 1..Len(triggers) : triggers[i].name = n

\* C7 as claimed: a run_job_now of a name that is not registered surfaces an
\* UnknownJobError to its caller.
C7_Original ==
    (call.state = "returned" /\ call.name \notin DOMAIN jobs)
        => call.raised = "UnknownJobError"

\* C7 as amended (state part): a run_job_now of an unregistered name returns
\* to its caller without raising; "main" is inside run_job_now exactly while
\* its run of that registered job is in progress; and run_job_now can be
\* called in every state of the scheduler.
C7_Synchronous ==
    /\ call.raised = "none"
    /\ (call.state = "returned" /\ call.name \notin DOMAIN jobs)
          => run["main"] = NoRun
    /\ (call.state = "running" <=> run["main"].phase # "none")
    /\ call.state = "running"
          => (call.name \in DOMAIN jobs /\ run["main"].name = call.name)
    /\ call = NoCall => \A n \in Names : ENABLED run_job_now(n)

\* C7 as amended (step part): the call with an unregistered name starts no
\* run (no extraction, no export) and returns; the call with a registered
\* name enters _run_job in the caller's thread.
C7_CallStep ==
    (call = NoCall /\ call' # NoCall) =>
        IF call'.name \in DOMAIN jobs
        THEN call'.state = "running" /\ run'["main"] = EnterRun(call'.name)
        ELSE call'.state = "returned" /\ run' = run

\* C7 as amended: run_job_now with an unregistered name logs an error and
\* returns normally, starting no extraction and no export; with a registered
\* name it runs the job synchronously in any scheduler state.
C7_RunNow == [] C7_Synchronous /\ [][C7_CallStep]_vars

\* run_job_now of an unregistered name has returned while the loop runs
C7_Witness ==
    /\ call.state = "returned"
    /\ call.name \notin DOMAIN jobs
    /\ LoopActive
    /\ DOMAIN jobs # {}

\* C8 as claimed: at most one run of a job name is executing at any time.
C8_OneRunPerName ==
    \A t1, t2 \in Threads :
        (t1 # t2 /\ Executing(run[t1]) /\ Executing(run[t2]))
            => run[t1].name # run[t2].name

\* C10 as claimed (first part): the loop fires a registered job only when
\* its interval has elapsed since its last fire, or since its registration.
C10_FiredWhenElapsed ==
    [][(cur = 0 /\ cur' # 0) =>
          LET n == triggers[cur'].name
          IN sinceFire[n] >= Period(jobs[n].schedule_interval)]_vars

\* C9 (steps): the scheduler goes idle -> running -> stopped; a stop request
\* changes nothing of the loop or of the run in progress; the loop exits
\* only at its loop test, with no run in progress.
C9_Steps ==
    /\ SchedulerState' # SchedulerState
          => \/ SchedulerState = "idle" /\ SchedulerState' = "running"
             \/ SchedulerState = "running" /\ SchedulerState' = "stopped"
    /\ (running /\ ~running')
          => (pc' = pc /\ run' = run /\ due' = due /\ cur' = cur)
    /\ (pc # "exited" /\ pc' = "exited")
          => (pc = "check" /\ ~running /\ run["sched"] = NoRun)

\* C9: a stop request made while the loop runs does not interrupt the run in
\* progress, which completes; the loop then sees the request at its next
\* loop test and exits, so the scheduler reaches stopped.
C9_StopCooperative ==
    /\ [][C9_Steps]_vars
    /\ \A ph \in {"attempt", "browsing", "backoff", "export"} :
          (stopSeen /\ run["sched"].phase = ph) ~> (run["sched"].phase = "done")
    /\ stopSeen ~> (pc = "exited")
    /\ (pc = "exited") ~> [](SchedulerState = "stopped")

\* stop was requested while a run of the loop was in progress
C9_Witness ==
    /\ stopSeen
    /\ ~running
    /\ Executing(run["sched"])

\* ------------------------------------------------- two rendered-mode jobs
\* the configurations of the rendered-mode jobs
DynamicConfigs ==
    {c \in ScrapeConfig : /\ c.scrape_type = "dynamic"
                          /\ c.schedule_interval.unit \in JobUnits
                          /\ c.max_retries \in JobRetries
                          /\ c.url \in JobUrls
                          /\ c.output_format \in JobFormats}

\* Two registered rendered-mode jobs, the periodic loop and the calls of
\* "main" other than add_job: runs of DynamicScraper in both threads.
InitSession ==
    \E ca, cb \in DynamicConfigs :
        /\ ca.name = "a"
        /\ cb.name = "b"
        /\ jobs = (ca.name :> ca) @@ (cb.name :> cb)
        /\ triggers =
              (IF Recognized(ca.schedule_interval) THEN <<NewTrigger(ca)>> ELSE <<>>)
              \o (IF Recognized(cb.schedule_interval) THEN <<NewTrigger(cb)>> ELSE <<>>)
        /\ running = FALSE
        /\ pc = "idle"
        /\ due = {}
        /\ cur = 0
        /\ run = [t \in Threads |-> NoRun]
        /\ call = NoCall
        /\ nAdds = 2
        /\ sinceFire = [n \in Names |-> 0]
        /\ stopSeen = FALSE
        /\ stopEarly = FALSE
        /\ scrape = NoScrape

NextSession ==
    \/ NextLoop
    \/ \E t \in Threads : Browse(t)

SessionSpec == InitSession /\ [][NextSession]_vars

\* ------------------------------------------------------- export properties
\* C11 as claimed: in every run an exporter is invoked only after an
\* extraction attempt of the run succeeded; a run that ended with a csv, json
\* or database format and a successful extraction invoked exactly one
\* exporter, the one of its format; a run whose retries are exhausted
\* invoked none.
C11_ExportAfterSuccess ==
    \A f \in Frames :
        /\ f.exported # <<>> => f.calls > Failures(f)
        /\ (f.phase = "done" /\ f.retry = "returned") =>
              /\ f.cfg.output_format = "csv" => f.exported = <<"to_csv">>
              /\ f.cfg.output_format = "json" => f.exported = <<"to_json">>
              /\ f.cfg.output_format = "database" => f.exported = <<"to_database">>
        /\ f.retry = "raised" => f.exported = <<>>

\* C12 as claimed: a run whose extraction succeeded and whose exporter then
\* failed is not reported as a failed job.
C12_Original ==
    \A f \in Frames :
        (f.calls > Failures(f) /\ f.exc = "ExportError") => f.outcome # "failed"

\* C12 as amended (state part): when the extraction succeeded and the
\* exporter then failed, the exporter was invoked once, the one successful
\* attempt is the last attempt made, the records returned are kept, and
\* _run_job reports the job as failed.
C12_ExportFailure ==
    \A f \in Frames :
        f.exc = "ExportError" =>
            /\ f.retry = "returned"
            /\ Len(f.exported) = 1
            /\ f.wrote = {}
            /\ f.phase = "done"
            /\ f.outcome = "failed"
            /\ f.data = "None" \/ (f.data = "records" /\ f.calls = Failures(f) + 1)

\* C12 as amended (step part): a run that has logged its outcome makes no
\* further step: no attempt, no export; _run_job returns.
C12_NoRetryAfter ==
    \A t \in Threads :
        (run[t].phase = "done" /\ run'[t] # run[t]) => run'[t] = NoRun

\* C12 as amended: when extraction succeeds and the exporter then fails, the
\* export is not retried and the extraction is not re-run, and _run_job's
\* handler reports the run as a failed job.
C12_ExportFailureReported == [] C12_ExportFailure /\ [][C12_NoRetryAfter]_vars

\* an extraction that succeeded at its second attempt, and an exporter that
\* then failed
C12_Witness ==
    \E f \in Frames :
        /\ f.exc = "ExportError"
        /\ f.calls = 2
        /\ Failures(f) = 1
        /\ f.found > 0

\* C13 as claimed: an export of zero records writes no sink, whatever the
\* exporter.
C13_EmptyExportWritesNothing ==
    \A f \in Frames :
        (f.data = "records" /\ f.found = 0 /\ f.exported # <<>>) => f.wrote = {}

\* C14: a browsing session is open only inside the rendered-mode scrape that
\* opened it: once a scrape has returned or raised, in any attempt, and once
\* retry_scrape has ended, the run holds no open session; every run inside a
\* rendered-mode scrape holds one session of its own.
C14_SessionTornDown ==
    /\ \A f \in Frames :
          /\ f.open = (IF f.phase = "browsing" THEN 1 ELSE 0)
          /\ f.phase = "browsing" => f.driver = "live"
          /\ f.retry # "none" => f.open = 0 /\ f.driver # "live"
    /\ \A t1, t2 \in Threads :
          (t1 # t2 /\ run[t1].phase = "browsing" /\ run[t2].phase = "browsing")
              => run[t1].open + run[t2].open = 2

\* two runs at once: one inside a rendered-mode scrape with its session
\* open, the other ended after an attempt that opened a session and failed
C14_Witness ==
    /\ run["sched"].phase = "browsing"
    /\ run["main"].retry = "raised"
    /\ run["main"].driver = "dead"
    /\ Len(run["main"].errs) = 2

\* ----------------------------------------------------- registry properties
\* C15 (steps): the job table changes only in a call of add_job, and no step
\* removes a registered name.
C15_Steps ==
    /\ jobs' # jobs => nAdds' = nAdds + 1
    /\ DOMAIN jobs \subseteq DOMAIN jobs'

\* C15: the registered jobs and their stored specs change only by
\* registration: start_scheduler, stop_scheduler, run_job_now, list_jobs and
\* every run of the loop or of run_job_now leave self.jobs as it is, so the
\* jobs registered are still registered when the scheduler has stopped.
C15_RegistryFrame == [][C15_Steps]_vars

\* the scheduler has stopped after a run that failed, with both jobs still
\* registered
C15_Witness ==
    /\ pc = "exited"
    /\ stopSeen
    /\ DOMAIN jobs = Names
    /\ run["main"].outcome = "failed"

\* ------------------------------------------------------------- extraction
\* A string is a sequence of characters; None is Python's None, which is no
\* string.  An element has its href and src attributes (None when it has
\* none, the empty string when it has an empty one) and the text nodes under
\* it.  A container holds, for each field, the elements inside it that the
\* field's selector matches, in document order; a page is the sequence of
\* the containers that the container selector matches.
None == <<"None">>

Fields == {"title", "link"}         \* the selectors after the container selector
MaxContainers == 2                  \* most containers on a page
MatchCounts == {0, 1, 2}            \* elements of one container a selector matches
HrefValues == {None, <<>>, <<"h">>}
SrcValues == {None, <<>>, <<"s">>}
Texts == {<<>>, << <<" ", "t", " ">> >>, << <<"t", " ">>, <<"t">> >>}

Elements == [href : HrefValues, src : SrcValues, text : Texts]

\* a link with an href, and an element with neither href nor src
ShapeElements ==
    {e \in Elements : /\ e.href \in {None, <<"h">>}
                      /\ e.src = None
                      /\ e.text = << <<" ", "t", " ">> >>}

Matches(E) == UNION {[1..k -> E] : k \in MatchCounts}

\* pages of up to MaxContainers containers, and pages of one container that
\* holds one element of any kind
Pages ==
    UNION {[1..n -> [Fields -> Matches(ShapeElements)]] : n \in 0..MaxContainers}
    \cup {<<[f \in Fields |-> <<e>>]>> : e \in Elements}

RECURSIVE lstrip(_)
lstrip(str) == IF str # <<>> /\ Head(str) = " " THEN lstrip(Tail(str)) ELSE str

RECURSIVE rstrip(_)
rstrip(str) ==
    IF str # <<>> /\ str[Len(str)] = " "
    THEN rstrip(SubSeq(str, 1, Len(str) - 1))
    ELSE str

\* str.strip()
strip(str) == rstrip(lstrip(str))

\* bool(value) of a string or None
bool(value) == value # None /\ value # <<>>

\* element.get_text(strip=True): every text node stripped, the empty ones
\* left out, the rest joined with no separator
RECURSIVE get_text(_)
get_text(nodes) ==
    IF nodes = <<>> THEN <<>> ELSE strip(Head(nodes)) \o get_text(Tail(nodes))

\* element.text of a WebElement: the text nodes as they follow each other
RECURSIVE text(_)
text(nodes) == IF nodes = <<>> THEN <<>> ELSE Head(nodes) \o text(Tail(nodes))

\* the elements of the whole page that a field's selector matches, from
\* container j on
RECURSIVE DocumentMatches(_, _, _)
DocumentMatches(page, field, j) ==
    IF j > Len(page) THEN <<>>
    ELSE page[j][field] \o DocumentMatches(page, field, j + 1)

\* a lookup in the whole document instead of the container
select_one_Document(page, i, field) ==
    LET all == DocumentMatches(page, field, 1)
    IN IF all = <<>> THEN <<>> ELSE <<all[1]>>

\* container.select_one(selector) / container.find_element(By.CSS_SELECTOR,
\* selector) for container i: the first match inside the container, as a
\* sequence of one element; the empty sequence when there is none
\* (select_one returns None, find_element raises)
select_one(page, i, field) ==
    IF page[i][field] = <<>> THEN <<>> ELSE <<page[i][field][1]>>

\* an extraction that takes the text when there is one
ExtractValue_TextFirst(type, element) ==
    IF bool(strip(text(element.text))) THEN strip(text(element.text))
    ELSE IF bool(element.href) THEN element.href
    ELSE element.src

\* if element.get('href'): ... elif element.get('src'): ... else:
\* element.get_text(strip=True)   (static; get_attribute and
\* element.text.strip() in a DynamicScraper)
ExtractValue(type, element) ==
    IF bool(element.href) THEN element.href
    ELSE IF bool(element.src) THEN element.src
    ELSE IF type = "static" THEN get_text(element.text)
    ELSE strip(text(element.text))

\* the body of `for container in containers` for container i: the item with
\* every field resolved, None where nothing matched (`else: item[field] =
\* None` / `except Exception: item[field] = None`)
Item(type, page, i) ==
    [f \in Fields |->
        LET found == select_one(page, i, f)
        IN IF found = <<>> THEN None ELSE ExtractValue(type, found[1])]

\* scrape() has its page: soup.select(container_selector) /
\* driver.find_elements(By.CSS_SELECTOR, container_selector) gave the
\* containers, data = []
InitScrape ==
    /\ jobs = <<>>
    /\ triggers = <<>>
    /\ running = FALSE
    /\ pc = "idle"
    /\ due = {}
    /\ cur = 0
    /\ run = [t \in Threads |-> NoRun]
    /\ call = NoCall
    /\ nAdds = 0
    /\ sinceFire = [n \in Names |-> 0]
    /\ stopSeen = FALSE
    /\ stopEarly = FALSE
    /\ \E type \in Types, page \in Pages :
         scrape = [type |-> type, page |-> page, data |-> <<>>,
                   returned |-> FALSE]

\* one turn of `for container in containers`: data.append(item)
ScrapeContainer ==
    /\ scrape.type # "none"
    /\ ~scrape.returned
    /\ Len(scrape.data) < Len(scrape.page)
    /\ scrape' = [scrape EXCEPT !.data =
                    Append(@, Item(scrape.type, scrape.page, Len(@) + 1))]
    /\ UNCHANGED <<jobs, triggers, running, pc, due, cur, run, call, nAdds,
                   sinceFire, stopSeen, stopEarly>>

\* the loop is over: return data
ScrapeReturn ==
    /\ scrape.type # "none"
    /\ ~scrape.returned
    /\ Len(scrape.data) = Len(scrape.page)
    /\ scrape' = [scrape EXCEPT !.returned = TRUE]
    /\ UNCHANGED <<jobs, triggers, running, pc, due, cur, run, call, nAdds,
                   sinceFire, stopSeen, stopEarly>>

NextScrape ==
    \/ ScrapeContainer
    \/ ScrapeReturn

ScrapeSpec == InitScrape /\ [][NextScrape]_vars

C17_TrimmedText(element) == strip(text(element.text))

C18_SleepsBetweenAttempts ==
    \A f \in Frames :
        LET n == f.cfg.max_retries
        IN /\ Failures(f) = 0 => f.slept = <<>>
           /\ Len(f.slept) <= Failures(f)
           /\ f.retry = "returned" => Len(f.slept) = Failures(f)
           /\ (n >= 1 /\ Failures(f) = n) => Len(f.slept) = n - 1
           /\ f.retry = "raised" => Len(f.slept) = Failures(f) - 1
           /\ f.phase \in {"attempt", "browsing"} =>
                 (Len(f.slept) = f.attempt /\ Failures(f) = f.attempt)
           /\ f.phase = "backoff" => Len(f.slept) = Failures(f)

\* three attempts failed and retry_scrape raised after two sleeps
C18_Witness ==
    \E f \in Frames :
        /\ f.retry = "raised"
        /\ Failures(f) = 3
        /\ Len(f.slept) = 2

\* C19 as claimed: whatever max_retries is, a retry_scrape that returns
\* delivers the records of an attempt that succeeded, and _run_job logs a
\* job as completed only if an attempt was made and succeeded.
C19_CompletedOnlyAfterSuccess ==
    \A f \in Frames :
        /\ f.retry = "returned" => (f.data = "records" /\ f.calls > Failures(f))
        /\ f.outcome = "completed" => f.calls > Failures(f)

\* ----------------------------------------------------------- stop properties
\* C20 as claimed: once stop_scheduler was called while the loop was running,
\* the loop starts no run of a job.
C20_Original ==
    [][stopSeen => ~(cur = 0 /\ cur' # 0)]_vars

\* C20 as amended (steps): once stop_scheduler was called while the loop was
\* running, the loop test does not enter the loop body again, and a run the
\* loop starts is the run of a trigger that the pass of run_pending in
\* progress has found due.
C20_Steps ==
    stopSeen =>
        /\ ~running'
        /\ pc = "check" => pc' \in {"check", "exited"}
        /\ pc = "sleep" => pc' \in {"sleep", "check"}
        /\ pc = "exited" => pc' = "exited"
        /\ (cur = 0 /\ cur' # 0) =>
              (pc = "pending" /\ pc' = "pending" /\ cur' \in due
               /\ should_run(triggers[cur']))

\* C20 as amended: after a stop request made while the loop runs, the loop
\* begins no further pass of run_pending once it is back at its loop test;
\* the pass in progress still runs, one after the other, the jobs it found
\* due.
C20_NoNewPass == [][C20_Steps]_vars

\* stop was requested during a run of the loop while another trigger found
\* due in the same pass is still to run
C20_Witness ==
    /\ stopSeen
    /\ ~running
    /\ pc = "pending"
    /\ run["sched"].phase = "done"
    /\ due # {}

\* C21 as claimed: a stop request is never lost: when stop_scheduler is
\* called after start_scheduler was, also between its invocation and its
\* self.running = True, the loop eventually exits.
C21_StopNeverLost ==
    /\ stopSeen ~> (pc = "exited")
    /\ stopEarly ~> (pc = "exited")

====
